---- MODULE Spec2Model ----
(***************************************************************************)
(* Capacity resolution and launch decisions of the FlashInfer CI runner    *)
(* lambdas: cb-scale-up (reservation strategy) and p4d-scale-up (spot with *)
(* on-demand fallback).  One invocation of one handler is modelled, split  *)
(* at its remote calls; the cloud provider is the environment.             *)
(*                                                                         *)
(* Strings that the code splits or tests character by character (the       *)
(* SUBNET_IDS setting) are sequences of one-character strings; every other *)
(* string is an atom.                                                      *)
(***************************************************************************)
EXTENDS Integers, Sequences, FiniteSets, TLC

VARIABLES
    fn,          \* which lambda is deployed: "cb" or "p4d"
    env,         \* process environment: a function from the names that are set
    event,       \* the SQS event's Records
    inventory,   \* provider side: the capacity reservations, in listing order
    pc,          \* position of the handler
    idx,         \* 1-based position of the record being processed
    job_info,    \* handler local
    cb_info,     \* handler local (cb-scale-up)
    subnet_id,   \* handler local
    calls,       \* remote calls issued for the record being processed
    ret,         \* what the resolver and the selector returned for that record
    results,     \* handler local: successful and failed lists
    response,    \* what the handler returned
    launched,    \* provider side: number of instances created so far
    peer         \* a second, concurrent invocation of cb-scale-up

vars == <<fn, env, event, inventory, pc, idx, job_info, cb_info, subnet_id,
          calls, ret, results, response, launched, peer>>

----------------------------------------------------------------------------
(* Bounds *)

MaxBatch == 2

MaxReservations == 2

MaxAvail == 1

\* Labels in one status query
MaxLabels == 2

----------------------------------------------------------------------------
(* Python values *)

None == "<None>"

NoneRec == [isNone |-> TRUE]

Some(v) == [isNone |-> FALSE, val |-> v]

EmptyDict == [k \in {} |-> None]

\* `not x` of Python for an optional string
Falsy(x) == x = None \/ x = ""

\* dict.get(key, default)
Get(d, key, default) == IF key \in DOMAIN d THEN d[key] ELSE default

\* str.split(',')
RECURSIVE SplitComma(_)
SplitComma(s) ==
    IF \A i \in 1..Len(s) : s[i] # ","
    THEN <<s>>
    ELSE LET i == CHOOSE j \in 1..Len(s) :
                      s[j] = "," /\ \A k \in 1..(j - 1) : s[k] # ","
         IN  <<SubSeq(s, 1, i - 1)>> \o SplitComma(SubSeq(s, i + 1, Len(s)))

\* [x for x in s if P(x)]
RECURSIVE SelectSeqIdx(_, _)
SelectSeqIdx(s, keep) ==
    IF s = <<>> THEN <<>>
    ELSE (IF keep[1] THEN <<Head(s)>> ELSE <<>>)
         \o SelectSeqIdx(Tail(s), Tail(keep))

----------------------------------------------------------------------------
(* Module-level configuration of the two lambdas *)

CB_LAUNCH_TEMPLATE_NAME == Get(env, "LAUNCH_TEMPLATE_NAME", None)

CB_SUBNET_IDS == SplitComma(Get(env, "SUBNET_IDS", <<>>))

CB_INSTANCE_TYPE == Get(env, "INSTANCE_TYPE", None)

P4D_LAUNCH_TEMPLATE_NAME == Get(env, "LAUNCH_TEMPLATE_NAME", None)

P4D_SUBNET_IDS == SplitComma(Get(env, "SUBNET_IDS", <<>>))

P4D_INSTANCE_TYPE == Get(env, "INSTANCE_TYPE", "p4d.24xlarge")

SPOT_FAILOVER_ERRORS ==
    {"InsufficientInstanceCapacity", "SpotMaxPriceTooLow", "MaxSpotInstanceCountExceeded"}

RETRY_ERRORS == {"RequestLimitExceeded", "ServiceUnavailable"}

\* retry_errors of launch_instance_into_cb
CB_RETRY_ERRORS ==
    {"InsufficientInstanceCapacity", "RequestLimitExceeded", "ServiceUnavailable"}

----------------------------------------------------------------------------
(* Exceptions: [cls, text, arg]; str(e) is <<text, arg>> *)

Exc(cls, text, arg) == [cls |-> cls, text |-> text, arg |-> arg]

ScaleError(text, arg) == Exc("ScaleError", text, arg)

ClientError(code) == Exc("ClientError", "An error occurred", code)

StrOf(e) == <<e.text, e.arg>>

\* e.response.get('Error', {}).get('Code', '')
ErrorCode(e) == IF e.cls = "ClientError" THEN e.arg ELSE ""

\* The classes raised in this model and their bases (all derive from Exception)
Bases(cls) ==
    CASE cls = "ScaleError" -> {"ScaleError", "Exception"}
      [] cls = "ClientError" -> {"ClientError", "Exception"}
      [] cls = "AttributeError" -> {"AttributeError", "Exception"}
      [] cls = "EndpointConnectionError" ->
             {"EndpointConnectionError", "BotoCoreError", "Exception"}
      [] cls \in {"KeyboardInterrupt", "SystemExit"} -> {cls, "BaseException"}
      [] OTHER -> {cls, "Exception"}

----------------------------------------------------------------------------
(* Results of calls that may raise *)

Ok(v) == [ok |-> TRUE, val |-> v]

Raise(e) == [ok |-> FALSE, exc |-> e]

\* A call that has not been made for the record being processed
NotCalled == [called |-> FALSE]

NothingReturned == [block |-> NotCalled, subnet |-> NotCalled]

----------------------------------------------------------------------------
(* Input domains *)

MsgIds == <<"m1", "m2", "m3", "m4">>

\* A message body: JSON text of an object, text that is not JSON, or JSON text
\* of a value that is not an object (an array, a number, null)
Bodies ==
    {[kind |-> "object", id |-> "7001"], [kind |-> "invalid"], [kind |-> "nonobject"]}

\* Record i of a batch: SQS gives each message of a batch its own messageId
RecordsAt(i) ==
    {[messageId |-> MsgIds[i], body |-> b] : b \in Bodies}
    \cup {[body |-> b] : b \in Bodies}

Batches ==
    UNION {
        {ev \in [1..n -> UNION {RecordsAt(i) : i \in 1..n}] :
            /\ \A i \in 1..n : ev[i] \in RecordsAt(i)
            /\ Cardinality({i \in 1..n : "messageId" \notin DOMAIN ev[i]}) <= 1}
        : n \in 0..MaxBatch}

\* A setting is unset (NoneRec) or set to a value
TemplateSettings == {NoneRec, Some("cb-runner-template")}

TypeSettings == {NoneRec, Some("p5.48xlarge")}

\* SUBNET_IDS as set in the environment: unset, ",", "a", "a,b"
SubnetSettings == {NoneRec, Some(<<",">>), Some(<<"a">>), Some(<<"a", ",", "b">>)}

\* os.environ with the three settings, each set or unset
EnvOf(lt, it, sn) ==
    [k \in ({"LAUNCH_TEMPLATE_NAME" : x \in {lt} \ {NoneRec}}
            \cup {"INSTANCE_TYPE" : x \in {it} \ {NoneRec}}
            \cup {"SUBNET_IDS" : x \in {sn} \ {NoneRec}}) |->
        CASE k = "LAUNCH_TEMPLATE_NAME" -> lt.val
          [] k = "INSTANCE_TYPE" -> it.val
          [] OTHER -> sn.val]

Environments ==
    {EnvOf(lt, it, sn) : lt \in TemplateSettings, it \in TypeSettings,
                         sn \in SubnetSettings}

----------------------------------------------------------------------------
(* The provider (environment of the lambdas) *)

AZ1 == "us-west-2a"

AZ2 == "us-west-2b"

\* The subnets that exist at the provider, with their zones
ExistingSubnets == {<<"a">>, <<"b">>}

SubnetAZ(s) == IF s = <<"a">> THEN AZ1 ELSE AZ2

Reservation(id, state, itype, rtype, az, avail) ==
    [CapacityReservationId |-> id, State |-> state, InstanceType |-> itype,
     ReservationType |-> rtype, AvailabilityZone |-> az,
     AvailableInstanceCount |-> avail]

\* Inventories the batch handler is run against
ScenarioInventories ==
    { <<>>,
      <<Reservation("cr-1", "active", "p5.48xlarge", "capacity-block", AZ1, 1)>>,
      <<Reservation("cr-1", "active", "p5.48xlarge", "capacity-block", AZ2, 2)>>,
      <<Reservation("cr-1", "active", "p5.48xlarge", "capacity-block", AZ1, 0),
        Reservation("cr-2", "active", "p5.48xlarge", "capacity-block", AZ1, 1)>>,
      <<Reservation("cr-1", "expired", "p5.48xlarge", "capacity-block", AZ1, 1),
        Reservation("cr-2", "active", "p5.48xlarge", "default", AZ1, 1)>> }

ErrorCodes == SPOT_FAILOVER_ERRORS \cup RETRY_ERRORS \cup {"InvalidParameterValue"}

\* What a remote call can raise instead of answering
NoFault == Exc("", "", "")

LaunchFaults ==
    {ClientError(c) : c \in ErrorCodes}
    \cup {Exc("EndpointConnectionError", "Could not connect to the endpoint", "")}

QueryFaults == {ClientError("RequestLimitExceeded"), ClientError("UnauthorizedOperation")}

\* DescribeCapacityReservations with the state and instance-type filters
DescribeCapacityReservations(states, instance_type) ==
    SelectSeqIdx(inventory,
                 [i \in 1..Len(inventory) |->
                     /\ inventory[i].State \in states
                     /\ inventory[i].InstanceType = instance_type])

\* DescribeSubnets with SubnetIds and the availability-zone filter: an id that
\* names no subnet is rejected, otherwise the named subnets of that zone
DescribeSubnets(subnet_ids, az) ==
    IF \E i \in 1..Len(subnet_ids) : subnet_ids[i] \notin ExistingSubnets
    THEN Raise(ClientError("InvalidSubnetID.NotFound"))
    ELSE Ok(SelectSeqIdx(subnet_ids,
                         [i \in 1..Len(subnet_ids) |-> SubnetAZ(subnet_ids[i]) = az]))

\* Whether the provider can place one more instance into reservation id
HasCapacity(id) ==
    \E i \in 1..Len(inventory) :
        /\ inventory[i].CapacityReservationId = id
        /\ inventory[i].State = "active"
        /\ Get(inventory[i], "AvailableInstanceCount", 0) > 0

\* The inventory after one instance was placed into reservation id
Consume(id) ==
    [i \in 1..Len(inventory) |->
        IF inventory[i].CapacityReservationId = id
        THEN [inventory[i] EXCEPT !.AvailableInstanceCount = @ - 1]
        ELSE inventory[i]]

----------------------------------------------------------------------------
(* cb-scale-up *)

\* Fault: the loop without its test of AvailableInstanceCount
SelectCapacityBlock_AnyAvailability(crs) ==
    LET hits == {i \in 1..Len(crs) :
                    Get(crs[i], "ReservationType", None) = "capacity-block"}
    IN  IF hits = {} THEN NoneRec
        ELSE LET cr == crs[CHOOSE i \in hits : \A j \in hits : i <= j]
             IN  Some([id |-> cr.CapacityReservationId,
                       az |-> cr.AvailabilityZone,
                       available |-> Get(cr, "AvailableInstanceCount", 0)])

\* The loop of find_active_capacity_block over the listed reservations
SelectCapacityBlock(crs) ==
    LET hits == {i \in 1..Len(crs) :
                    /\ Get(crs[i], "ReservationType", None) = "capacity-block"
                    /\ Get(crs[i], "AvailableInstanceCount", 0) > 0}
    IN  IF hits = {} THEN NoneRec
        ELSE LET cr == crs[CHOOSE i \in hits : \A j \in hits : i <= j]
             IN  Some([id |-> cr.CapacityReservationId,
                       az |-> cr.AvailabilityZone,
                       available |-> cr.AvailableInstanceCount])

\* Fault: the block found for an earlier record of the batch reused instead
\* of a new query
find_active_capacity_block_Cached(instance_type, fault) ==
    IF fault # NoFault
    THEN Raise(fault)
    ELSE IF cb_info.id # None
    THEN Ok(Some(cb_info))
    ELSE Ok(SelectCapacityBlock(DescribeCapacityReservations({"active"}, instance_type)))

find_active_capacity_block(instance_type, fault) ==
    IF fault # NoFault
    THEN Raise(fault)
    ELSE Ok(SelectCapacityBlock(DescribeCapacityReservations({"active"}, instance_type)))

\* Fault: the first configured subnet returned whatever its zone
find_subnet_in_az_AnyZone(az, fault) ==
    IF fault # NoFault
    THEN Raise(fault)
    ELSE IF \E i \in 1..Len(CB_SUBNET_IDS) : CB_SUBNET_IDS[i] \notin ExistingSubnets
    THEN Raise(ClientError("InvalidSubnetID.NotFound"))
    ELSE Ok(Some(CB_SUBNET_IDS[1]))

find_subnet_in_az(az, fault) ==
    IF fault # NoFault
    THEN Raise(fault)
    ELSE LET r == DescribeSubnets(CB_SUBNET_IDS, az)
         IN  IF ~r.ok THEN r
             ELSE IF r.val # <<>> THEN Ok(Some(r.val[1]))
             ELSE Ok(NoneRec)

\* raise ScaleError(f"No active Capacity Block for {INSTANCE_TYPE}")
NoCapacityBlock(instance_type) == ScaleError("No active Capacity Block for", instance_type)

\* Fault: a missing subnet raised as a plain error instead of a ScaleError
NoSubnet_Terminal(az) == Exc("RuntimeError", "No subnet in", az)

\* raise ScaleError(f"No subnet in {cb_info['az']}")
NoSubnet(az) == ScaleError("No subnet in", az)

\* Fault: launch_instance_into_cb re-raising whatever run_instances raised
CbLaunchError_Unwrapped(e) == e

\* Fault: InsufficientInstanceCapacity left out of retry_errors
CbLaunchError_NoCapacityCode(e) ==
    IF e.cls = "ClientError"
       /\ ErrorCode(e) \in CB_RETRY_ERRORS \ {"InsufficientInstanceCapacity"}
    THEN ScaleError("Retryable error", ErrorCode(e))
    ELSE e

\* The except clause of launch_instance_into_cb
CbLaunchError(e) ==
    IF e.cls = "ClientError" /\ ErrorCode(e) \in CB_RETRY_ERRORS
    THEN ScaleError("Retryable error", ErrorCode(e))
    ELSE e

\* Fault: the type looked up from the job's labels, as cb-manager does
RequiredInstanceType_FromLabels(record) ==
    IF /\ "body" \in DOMAIN record
       /\ "labels" \in DOMAIN record.body
       /\ \E i \in 1..Len(record.body.labels) : record.body.labels[i] = "h100"
    THEN "p5.48xlarge"
    ELSE CB_INSTANCE_TYPE

\* The type the handler resolves a record against: the module-level
\* INSTANCE_TYPE, whatever the record holds
RequiredInstanceType(record) == CB_INSTANCE_TYPE

\* Job tags appended to the fixed identity tags
JobTags(info) ==
    {k \in {"repository", "workflow_job_id"} : Get(info, k, None) # None}

\* parse_sqs_message
parse_sqs_message(record) ==
    IF "body" \notin DOMAIN record THEN Ok(EmptyDict)
    ELSE IF record.body.kind = "invalid" THEN Ok(EmptyDict)
    ELSE IF record.body.kind = "nonobject"
    THEN Raise(Exc("AttributeError", "object has no attribute", "get"))
    ELSE Ok([workflow_job_id |-> Get(record.body, "id", None),
             repository |-> "owner/name",
             event_type |-> None,
             installation_id |-> None])

\* record.get('messageId', 'unknown')
MessageId(record) == Get(record, "messageId", "unknown")

----------------------------------------------------------------------------
(* p4d-scale-up *)

\* valid_subnets of pick_subnet
ValidSubnets ==
    SelectSeqIdx(P4D_SUBNET_IDS,
                 [i \in 1..Len(P4D_SUBNET_IDS) |-> P4D_SUBNET_IDS[i] # <<>>])

\* pick_subnet: the subnets random.choice may return, or the ScaleError
pick_subnet ==
    IF ValidSubnets = <<>>
    THEN Raise(ScaleError("No valid subnets configured", ""))
    ELSE Ok({ValidSubnets[i] : i \in 1..Len(ValidSubnets)})

\* Fault: the RETRY_ERRORS codes on the spot launch failing over as well
SpotFailure_FailoverOnThrottle(e) ==
    IF e.cls # "ClientError" THEN Raise(e)
    ELSE IF ErrorCode(e) \in SPOT_FAILOVER_ERRORS \cup RETRY_ERRORS THEN Ok("ondemand")
    ELSE Raise(e)

\* The handler's except clause around the spot launch: "ondemand" when it
\* goes on to the on-demand launch, otherwise the exception leaving it
SpotFailure(e) ==
    IF e.cls # "ClientError" THEN Raise(e)
    ELSE IF ErrorCode(e) \in SPOT_FAILOVER_ERRORS THEN Ok("ondemand")
    ELSE IF ErrorCode(e) \in RETRY_ERRORS
    THEN Raise(ScaleError("Retryable error", ErrorCode(e)))
    ELSE Raise(e)

\* Fault: the on-demand error tested against both lists
OnDemandFailure_RetryCapacity(e2) ==
    IF e2.cls = "ClientError"
       /\ ErrorCode(e2) \in RETRY_ERRORS \cup SPOT_FAILOVER_ERRORS
    THEN ScaleError("Retryable error", ErrorCode(e2))
    ELSE e2

\* Fault: the on-demand error re-raised without the RETRY_ERRORS test
OnDemandFailure_Reraise(e2) == e2

\* The handler's except clause around the on-demand launch: what leaves it
OnDemandFailure(e2) ==
    IF e2.cls = "ClientError" /\ ErrorCode(e2) \in RETRY_ERRORS
    THEN ScaleError("Retryable error", ErrorCode(e2))
    ELSE e2

\* Fault: market_type left at "spot" after the on-demand launch
MarketTypeOf_AlwaysSpot(call) == "spot"

\* market_type assigned after each launch call
MarketTypeOf(call) == IF call = "spot" THEN "spot" ELSE "on-demand"

----------------------------------------------------------------------------
(* The batch loop common to both handlers *)

\* Fault: the second clause catching less than Exception, so that a
\* ClientError leaves the loop
ExceptClause_Narrow(e) ==
    IF "ScaleError" \in Bases(e.cls) THEN "ScaleError"
    ELSE IF "ClientError" \in Bases(e.cls) THEN "propagate"
    ELSE "Exception"

\* The except clauses of the loop body, in order: which one takes e
ExceptClause(e) ==
    IF "ScaleError" \in Bases(e.cls) THEN "ScaleError"
    ELSE IF "Exception" \in Bases(e.cls) THEN "Exception"
    ELSE "propagate"

FailedEntry(message_id, e, retry) ==
    [message_id |-> message_id, error |-> StrOf(e), retry |-> retry]

\* Fault: the second except clause logging without appending to failed
Recorded_DropTerminal(res, message_id, o) ==
    IF o.ok
    THEN [res EXCEPT !.successful = Append(@, o.val)]
    ELSE IF "ScaleError" \in Bases(o.exc.cls)
    THEN [res EXCEPT !.failed = Append(@, [message_id |-> message_id,
                                           error |-> StrOf(o.exc), retry |-> TRUE])]
    ELSE res

\* results after the loop body for a record ended with outcome o
Recorded(res, message_id, o) ==
    IF o.ok
    THEN [res EXCEPT !.successful = Append(@, o.val)]
    ELSE IF ExceptClause(o.exc) = "ScaleError"
    THEN [res EXCEPT !.failed = Append(@, FailedEntry(message_id, o.exc, TRUE))]
    ELSE IF ExceptClause(o.exc) = "Exception"
    THEN [res EXCEPT !.failed = Append(@, FailedEntry(message_id, o.exc, FALSE))]
    ELSE res

\* Fault: batch_item_failures without its filter on the retry flag
BatchItemFailures_AllFailed(failed) ==
    [i \in 1..Len(failed) |-> [itemIdentifier |-> failed[i].message_id]]

\* batch_item_failures
BatchItemFailures(failed) ==
    LET kept == SelectSeqIdx(failed,
                             [i \in 1..Len(failed) |-> Get(failed[i], "retry", FALSE)])
    IN  [i \in 1..Len(kept) |-> [itemIdentifier |-> kept[i].message_id]]

Response(res) ==
    [statusCode |-> 200, body |-> res,
     batchItemFailures |-> BatchItemFailures(res.failed)]

FirstStep == IF fn = "cb" THEN "find_cb" ELSE "spot"

\* The loop body for record idx ended with outcome o: record it, then either
\* go on with the next record or build and return the response
EndRecord(o) ==
    LET res == Recorded(results, MessageId(event[idx]), o)
    IN  /\ results' = res
        /\ IF ~o.ok /\ ExceptClause(o.exc) = "propagate"
           THEN pc' = "raised" /\ idx' = idx /\ response' = response
           ELSE IF idx < Len(event)
           THEN pc' = FirstStep /\ idx' = idx + 1 /\ response' = response
           ELSE pc' = "returned" /\ idx' = idx /\ response' = Response(res)

\* Fault: MaxCount above MinCount, so that one call may create two instances
InstancesRequested_Two == 1 + 1

\* MinCount and MaxCount of every run_instances call
InstancesRequested == 1

Call(api, market, subnet, reservation, tags, answer) ==
    [api |-> api, market |-> market, subnet |-> subnet,
     reservation |-> reservation, count |-> InstancesRequested, tags |-> tags, answer |-> answer]

\* The answer a remote call gave: "ok" or the code or class of what it raised
AnswerOf(fault) ==
    IF fault = NoFault THEN "ok"
    ELSE IF fault.cls = "ClientError" THEN fault.arg ELSE fault.cls

\* No second invocation is running
PeerIdle ==
    [pc |-> "idle", cb_info |-> [id |-> None, az |-> None, available |-> 0],
     subnet_id |-> <<>>, answer |-> None,
     results |-> [successful |-> <<>>, failed |-> <<>>], response |-> NoneRec]

----------------------------------------------------------------------------
(* Handlers *)

\* The entry check of cb-scale-up's handler
CbConfigError ==
    \/ Falsy(CB_LAUNCH_TEMPLATE_NAME)
    \/ Falsy(CB_INSTANCE_TYPE)
    \/ CB_SUBNET_IDS = <<>> \/ CB_SUBNET_IDS = << <<>> >>

\* The entry check of p4d-scale-up's handler
P4dConfigError ==
    \/ Falsy(P4D_LAUNCH_TEMPLATE_NAME)
    \/ P4D_SUBNET_IDS = <<>> \/ P4D_SUBNET_IDS = << <<>> >>

\* handler, from its invocation to the first record (or its return)
HandlerStart ==
    /\ pc = "start"
    /\ results' = [successful |-> <<>>, failed |-> <<>>]
    /\ IF (fn = "cb" /\ CbConfigError) \/ (fn = "p4d" /\ P4dConfigError)
       THEN pc' = "raised" /\ idx' = idx /\ response' = response
       ELSE IF event = <<>>
       THEN /\ pc' = "returned" /\ idx' = idx
            /\ response' = Response([successful |-> <<>>, failed |-> <<>>])
       ELSE pc' = FirstStep /\ idx' = 1 /\ response' = response
    /\ UNCHANGED <<peer, fn, env, event, inventory, job_info, cb_info, subnet_id,
                   calls, ret, launched>>

\* cb-scale-up, loop body up to and including find_active_capacity_block
CbFindBlock ==
    /\ pc = "find_cb"
    /\ LET parsed == parse_sqs_message(event[idx])
       IN  IF ~parsed.ok
           THEN /\ EndRecord(parsed)
                /\ calls' = <<>>
                /\ ret' = NothingReturned
                /\ UNCHANGED <<job_info, cb_info>>
           ELSE \E fault \in {NoFault} \cup QueryFaults :
                  LET r == find_active_capacity_block(RequiredInstanceType(event[idx]), fault)
                  IN  /\ job_info' = parsed.val
                      /\ calls' = <<Call("DescribeCapacityReservations", None, None,
                                         None, {}, AnswerOf(fault))>>
                      /\ ret' = [NothingReturned EXCEPT !.block = r]
                      /\ IF ~r.ok
                         THEN EndRecord(r) /\ UNCHANGED cb_info
                         ELSE IF r.val.isNone
                         THEN /\ EndRecord(Raise(NoCapacityBlock(
                                     RequiredInstanceType(event[idx]))))
                              /\ UNCHANGED cb_info
                         ELSE /\ cb_info' = r.val.val
                              /\ pc' = "find_subnet"
                              /\ UNCHANGED <<idx, results, response>>
    /\ UNCHANGED <<peer, fn, env, event, inventory, subnet_id, launched>>

\* cb-scale-up, find_subnet_in_az
CbFindSubnet ==
    /\ pc = "find_subnet"
    /\ \E fault \in {NoFault} \cup QueryFaults :
         LET r == find_subnet_in_az(cb_info.az, fault)
         IN  /\ calls' = Append(calls, Call("DescribeSubnets", None, None, None, {},
                                            IF r.ok THEN "ok" ELSE r.exc.arg))
             /\ ret' = [ret EXCEPT !.subnet = r]
             /\ IF ~r.ok
                THEN EndRecord(r) /\ UNCHANGED subnet_id
                ELSE IF r.val.isNone
                THEN /\ EndRecord(Raise(NoSubnet(cb_info.az)))
                     /\ UNCHANGED subnet_id
                ELSE /\ subnet_id' = r.val.val
                     /\ pc' = "launch_cb"
                     /\ UNCHANGED <<idx, results, response>>
    /\ UNCHANGED <<peer, fn, env, event, inventory, job_info, cb_info, launched>>

\* cb-scale-up, launch_instance_into_cb and the recording of its outcome
CbLaunch ==
    /\ pc = "launch_cb"
    /\ \E fault \in {NoFault} \cup LaunchFaults :
         /\ fault = NoFault => HasCapacity(cb_info.id)
         /\ calls' = Append(calls, Call("RunInstances", "capacity-block", subnet_id,
                                        cb_info.id, JobTags(job_info), AnswerOf(fault)))
         /\ IF fault = NoFault
            THEN /\ launched' = launched + InstancesRequested
                 /\ inventory' = Consume(cb_info.id)
                 /\ EndRecord(Ok([message_id |-> MessageId(event[idx]),
                                  instance_id |-> launched + 1,
                                  capacity_block_id |-> cb_info.id]))
            ELSE /\ EndRecord(Raise(CbLaunchError(fault)))
                 /\ UNCHANGED <<launched, inventory>>
    /\ UNCHANGED <<peer, fn, env, event, job_info, cb_info, subnet_id, ret>>

\* p4d-scale-up, loop body up to and including the spot launch
P4dSpot ==
    /\ pc = "spot"
    /\ LET parsed == parse_sqs_message(event[idx])
       IN  IF ~parsed.ok
           THEN /\ EndRecord(parsed)
                /\ calls' = <<>>
                /\ UNCHANGED <<job_info, subnet_id, launched>>
           ELSE IF ~pick_subnet.ok
           THEN /\ EndRecord(pick_subnet)
                /\ calls' = <<>>
                /\ job_info' = parsed.val
                /\ UNCHANGED <<subnet_id, launched>>
           ELSE \E s \in pick_subnet.val, fault \in {NoFault} \cup LaunchFaults :
                  /\ job_info' = parsed.val
                  /\ subnet_id' = s
                  /\ calls' = <<Call("RunInstances", "spot", s, None,
                                     JobTags(parsed.val) \cup {"market_type:spot"},
                                     AnswerOf(fault))>>
                  /\ IF fault = NoFault
                     THEN /\ launched' = launched + InstancesRequested
                          /\ EndRecord(Ok([message_id |-> MessageId(event[idx]),
                                           instance_id |-> launched + 1,
                                           market_type |-> MarketTypeOf("spot")]))
                     ELSE /\ UNCHANGED launched
                          /\ IF SpotFailure(fault).ok
                             THEN /\ pc' = "ondemand"
                                  /\ UNCHANGED <<idx, results, response>>
                             ELSE EndRecord(SpotFailure(fault))
    /\ UNCHANGED <<peer, fn, env, event, inventory, cb_info, ret>>

\* p4d-scale-up, the on-demand launch and the recording of its outcome
P4dOnDemand ==
    /\ pc = "ondemand"
    /\ \E fault \in {NoFault} \cup LaunchFaults :
         /\ calls' = Append(calls, Call("RunInstances", "on-demand", subnet_id, None,
                                        JobTags(job_info) \cup {"market_type:on-demand"},
                                        AnswerOf(fault)))
         /\ IF fault = NoFault
            THEN /\ launched' = launched + InstancesRequested
                 /\ EndRecord(Ok([message_id |-> MessageId(event[idx]),
                                  instance_id |-> launched + 1,
                                  market_type |-> MarketTypeOf("on-demand")]))
            ELSE /\ UNCHANGED launched
                 /\ EndRecord(Raise(OnDemandFailure(fault)))
    /\ UNCHANGED <<peer, fn, env, event, inventory, job_info, cb_info, subnet_id, ret>>

----------------------------------------------------------------------------
(* Specification of one invocation of either batch handler *)

Init ==
    /\ fn \in {"cb", "p4d"}
    /\ env \in Environments
    /\ event \in Batches
    /\ inventory \in (IF fn = "cb" THEN ScenarioInventories ELSE {<<>>})
    /\ pc = "start"
    /\ idx = 0
    /\ job_info = EmptyDict
    /\ cb_info = [id |-> None, az |-> None, available |-> 0]
    /\ subnet_id = <<>>
    /\ calls = <<>>
    /\ ret = NothingReturned
    /\ results = [successful |-> <<>>, failed |-> <<>>]
    /\ response = NoneRec
    /\ launched = 0
    /\ peer = PeerIdle

Next ==
    \/ HandlerStart
    \/ CbFindBlock
    \/ CbFindSubnet
    \/ CbLaunch
    \/ P4dSpot
    \/ P4dOnDemand

Spec == Init /\ [][Next]_vars

----------------------------------------------------------------------------
(* Specification of the reservation resolver alone, over every inventory of
   up to MaxReservations reservations *)

\* AvailableInstanceCount of a listed reservation: a count, or the key absent
ReservationShapes(id) ==
    {Reservation(id, st, it, rt, AZ1, n) :
        st \in {"active", "expired"}, it \in {"p5.48xlarge", "p6-b200.48xlarge"},
        rt \in {"capacity-block", "default"}, n \in 0..MaxAvail}
    \cup {[CapacityReservationId |-> id, State |-> st, InstanceType |-> "p5.48xlarge",
           ReservationType |-> rt, AvailabilityZone |-> AZ2] :
        st \in {"active", "expired"}, rt \in {"capacity-block", "default"}}

ReservationIds == <<"cr-1", "cr-2", "cr-3", "cr-4">>

ResolverInventories ==
    UNION {
        {inv \in [1..n -> UNION {ReservationShapes(ReservationIds[i]) : i \in 1..n}] :
            \A i \in 1..n : inv[i].CapacityReservationId = ReservationIds[i]}
        : n \in 0..MaxReservations}

InitResolver ==
    /\ fn = "cb"
    /\ env = EnvOf(Some("cb-runner-template"), Some("p5.48xlarge"), Some(<<"a">>))
    /\ event = <<>>
    /\ inventory \in ResolverInventories
    /\ pc = "resolve"
    /\ idx = 0
    /\ job_info = EmptyDict
    /\ cb_info = [id |-> None, az |-> None, available |-> 0]
    /\ subnet_id = <<>>
    /\ calls = <<>>
    /\ ret = NothingReturned
    /\ results = [successful |-> <<>>, failed |-> <<>>]
    /\ response = NoneRec
    /\ launched = 0
    /\ peer = PeerIdle

\* One call of find_active_capacity_block(INSTANCE_TYPE)
Resolve ==
    /\ pc = "resolve"
    /\ \E fault \in {NoFault} \cup QueryFaults :
         /\ ret' = [ret EXCEPT !.block = find_active_capacity_block(CB_INSTANCE_TYPE, fault)]
         /\ calls' = <<Call("DescribeCapacityReservations", None, None, None, {},
                            AnswerOf(fault))>>
    /\ pc' = "resolved"
    /\ UNCHANGED <<peer, fn, env, event, inventory, idx, job_info, cb_info, subnet_id,
                   results, response, launched>>

NextResolver == Resolve

SpecResolver == InitResolver /\ [][NextResolver]_vars

----------------------------------------------------------------------------
(* Specification of cb-scale-up on one batch of two messages, the first for a
   job labelled "h100", the second for a job without labels, against an
   inventory holding one active Capacity Block of three p5.48xlarge *)

ScenarioEvent ==
    << [messageId |-> MsgIds[1],
        body |-> [kind |-> "object", id |-> "7001", labels |-> <<"h100">>]],
       [messageId |-> MsgIds[2],
        body |-> [kind |-> "object", id |-> "7002"]] >>

HopperInventory ==
    <<Reservation("cr-1", "active", "p5.48xlarge", "capacity-block", AZ1, 3)>>

InitScenario ==
    /\ fn = "cb"
    /\ env \in {EnvOf(Some("cb-runner-template"), Some(it), Some(<<"a">>)) :
                  it \in {"p5.48xlarge", "p6-b200.48xlarge"}}
    /\ event = ScenarioEvent
    /\ inventory = HopperInventory
    /\ pc = "start"
    /\ idx = 0
    /\ job_info = EmptyDict
    /\ cb_info = [id |-> None, az |-> None, available |-> 0]
    /\ subnet_id = <<>>
    /\ calls = <<>>
    /\ ret = NothingReturned
    /\ results = [successful |-> <<>>, failed |-> <<>>]
    /\ response = NoneRec
    /\ launched = 0
    /\ peer = PeerIdle

NextScenario ==
    \/ HandlerStart
    \/ CbFindBlock
    \/ CbFindSubnet
    \/ CbLaunch

SpecScenario == InitScenario /\ [][NextScenario]_vars

----------------------------------------------------------------------------
(* Specification of two concurrent invocations of cb-scale-up against one
   inventory. The second invocation (peer) handles a batch of one message and
   runs the same code; the provider answers its queries and places an
   instance only while the reservation has capacity left. *)

PeerMessageId == "p1"

\* The peer's loop body ended with outcome o; its batch has one record, so it
\* builds and returns its response
PeerEnd(o, cb, subnet, answer) ==
    LET res == Recorded(peer.results, PeerMessageId, o)
    IN  peer' = [pc |-> "returned", cb_info |-> cb, subnet_id |-> subnet,
                 answer |-> answer, results |-> res, response |-> Some(Response(res))]

\* The peer from its invocation to the launch call: steps 1 and 2 of the loop
PeerFind ==
    /\ peer.pc = "find_cb"
    /\ LET r == find_active_capacity_block(CB_INSTANCE_TYPE, NoFault)
       IN  IF r.val.isNone
           THEN PeerEnd(Raise(NoCapacityBlock(CB_INSTANCE_TYPE)),
                        peer.cb_info, peer.subnet_id, None)
           ELSE LET sn == find_subnet_in_az(r.val.val.az, NoFault)
                IN  IF ~sn.ok
                    THEN PeerEnd(sn, r.val.val, peer.subnet_id, None)
                    ELSE IF sn.val.isNone
                    THEN PeerEnd(Raise(NoSubnet(r.val.val.az)), r.val.val,
                                 peer.subnet_id, None)
                    ELSE peer' = [peer EXCEPT !.pc = "launch_cb",
                                              !.cb_info = r.val.val,
                                              !.subnet_id = sn.val.val]
    /\ UNCHANGED <<fn, env, event, inventory, pc, idx, job_info, cb_info,
                   subnet_id, calls, ret, results, response, launched>>

\* The peer's launch_instance_into_cb and the recording of its outcome
PeerLaunch ==
    /\ peer.pc = "launch_cb"
    /\ \E fault \in {NoFault} \cup LaunchFaults :
         /\ fault = NoFault => HasCapacity(peer.cb_info.id)
         /\ IF fault = NoFault
            THEN /\ launched' = launched + InstancesRequested
                 /\ inventory' = Consume(peer.cb_info.id)
                 /\ PeerEnd(Ok([message_id |-> PeerMessageId,
                                instance_id |-> launched + 1,
                                capacity_block_id |-> peer.cb_info.id]),
                            peer.cb_info, peer.subnet_id, AnswerOf(fault))
            ELSE /\ PeerEnd(Raise(CbLaunchError(fault)),
                            peer.cb_info, peer.subnet_id, AnswerOf(fault))
                 /\ UNCHANGED <<launched, inventory>>
    /\ UNCHANGED <<fn, env, event, pc, idx, job_info, cb_info, subnet_id,
                   calls, ret, results, response>>

RaceBatches ==
    {ev \in Batches :
        /\ Len(ev) >= 1
        /\ \A i \in 1..Len(ev) :
               "messageId" \in DOMAIN ev[i] /\ ev[i].body.kind = "object"}

InitRace ==
    /\ fn = "cb"
    /\ env = EnvOf(Some("cb-runner-template"), Some("p5.48xlarge"),
                   Some(<<"a", ",", "b">>))
    /\ event \in RaceBatches
    /\ inventory \in ScenarioInventories
    /\ pc = "start"
    /\ idx = 0
    /\ job_info = EmptyDict
    /\ cb_info = [id |-> None, az |-> None, available |-> 0]
    /\ subnet_id = <<>>
    /\ calls = <<>>
    /\ ret = NothingReturned
    /\ results = [successful |-> <<>>, failed |-> <<>>]
    /\ response = NoneRec
    /\ launched = 0
    /\ peer = [PeerIdle EXCEPT !.pc = "find_cb"]

NextRace ==
    \/ HandlerStart
    \/ CbFindBlock
    \/ CbFindSubnet
    \/ CbLaunch
    \/ PeerFind
    \/ PeerLaunch

SpecRace == InitRace /\ [][NextRace]_vars

----------------------------------------------------------------------------
(* cb-manager *)

DEFAULT_INSTANCE_TYPE == Get(env, "INSTANCE_TYPE", "p6-b200.48xlarge")

\* A label is a sequence of characters
UpperCase ==
    <<"A", "B", "C", "D", "E", "F", "G", "H", "I", "J", "K", "L", "M",
      "N", "O", "P", "Q", "R", "S", "T", "U", "V", "W", "X", "Y", "Z">>

LowerCase ==
    <<"a", "b", "c", "d", "e", "f", "g", "h", "i", "j", "k", "l", "m",
      "n", "o", "p", "q", "r", "s", "t", "u", "v", "w", "x", "y", "z">>

\* str.lower() of one character
LowerChar(c) ==
    IF \E i \in 1..Len(UpperCase) : UpperCase[i] = c
    THEN LowerCase[CHOOSE i \in 1..Len(UpperCase) : UpperCase[i] = c]
    ELSE c

\* str.lower()
Lower(label) == [i \in 1..Len(label) |-> LowerChar(label[i])]

BlackwellLabels ==
    { <<"b", "2", "0", "0">>, <<"s", "m", "1", "0", "0">>,
      <<"b", "l", "a", "c", "k", "w", "e", "l", "l">> }

HopperLabels ==
    { <<"h", "1", "0", "0">>, <<"s", "m", "9", "0">>,
      <<"h", "o", "p", "p", "e", "r">> }

LABEL_TO_INSTANCE_TYPE ==
    [k \in BlackwellLabels \cup HopperLabels |->
        IF k \in BlackwellLabels THEN "p6-b200.48xlarge" ELSE "p5.48xlarge"]

\* Fault: the loop keeping the last matching label instead of returning at
\* the first
RECURSIVE get_instance_type_from_labels_LastMatch(_)
get_instance_type_from_labels_LastMatch(labels) ==
    IF labels = <<>> THEN None
    ELSE LET last == Lower(labels[Len(labels)])
         IN  IF last \in DOMAIN LABEL_TO_INSTANCE_TYPE
             THEN LABEL_TO_INSTANCE_TYPE[last]
             ELSE get_instance_type_from_labels_LastMatch(
                      SubSeq(labels, 1, Len(labels) - 1))

RECURSIVE get_instance_type_from_labels(_)
get_instance_type_from_labels(labels) ==
    IF labels = <<>> THEN None
    ELSE LET label_lower == Lower(Head(labels))
         IN  IF label_lower \in DOMAIN LABEL_TO_INSTANCE_TYPE
             THEN LABEL_TO_INSTANCE_TYPE[label_lower]
             ELSE get_instance_type_from_labels(Tail(labels))

\* A datetime of the provider's answer and its isoformat()
DateTime(iso) == [iso |-> iso]

isoformat(d) == d.iso

\* DescribeCapacityReservations with the instance-type and state filters and,
\* when given, the availability-zone filter
DescribeCapacityReservationsIn(states, instance_type, az) ==
    SelectSeqIdx(inventory,
                 [i \in 1..Len(inventory) |->
                     /\ inventory[i].State \in states
                     /\ inventory[i].InstanceType = instance_type
                     /\ az # None => inventory[i].AvailabilityZone = az])

\* The entry get_active_capacity_blocks builds for a listed reservation
ActiveCb(cr) ==
    [reservation_id |-> cr.CapacityReservationId,
     state |-> cr.State,
     instance_type |-> cr.InstanceType,
     availability_zone |-> cr.AvailabilityZone,
     available_capacity |-> Get(cr, "AvailableInstanceCount", 0),
     total_capacity |-> Get(cr, "TotalInstanceCount", 0),
     start_date |-> IF "StartDate" \in DOMAIN cr THEN isoformat(cr.StartDate) ELSE None,
     end_date |-> isoformat(cr.EndDate)]

get_active_capacity_blocks(instance_type, availability_zone, fault) ==
    IF fault # NoFault
    THEN <<>>
    ELSE LET crs == DescribeCapacityReservationsIn(
                        {"active", "pending", "payment-pending"}, instance_type,
                        IF Falsy(availability_zone) THEN None ELSE availability_zone)
             dated == SelectSeqIdx(crs, [i \in 1..Len(crs) |-> "EndDate" \in DOMAIN crs[i]])
         IN  [i \in 1..Len(dated) |-> ActiveCb(dated[i])]

\* instance_type of handler after its three assignments
ResolvedInstanceType(ev) ==
    LET labels == Get(ev, "labels", <<>>)
        given == Get(ev, "instance_type", None)
        chosen == IF Falsy(given) /\ labels # <<>>
                  THEN get_instance_type_from_labels(labels)
                  ELSE given
    IN  IF Falsy(chosen) THEN DEFAULT_INSTANCE_TYPE ELSE chosen

\* Fault: 'ensure' and 'purchase' buying a Capacity Block
ManagerCalls_PurchaseOnEnsure(action, instance_type, az, fault) ==
    << [api |-> "DescribeCapacityReservations", instance_type |-> instance_type,
        availability_zone |-> IF Falsy(az) THEN None ELSE az,
        answer |-> AnswerOf(fault)] >>
    \o (IF action \in {"ensure", "purchase"}
        THEN << [api |-> "PurchaseCapacityBlock", instance_type |-> instance_type,
                 availability_zone |-> IF Falsy(az) THEN None ELSE az,
                 answer |-> "ok"] >>
        ELSE <<>>)

\* The remote calls one invocation of cb-manager issues
ManagerCalls(action, instance_type, az, fault) ==
    << [api |-> "DescribeCapacityReservations", instance_type |-> instance_type,
        availability_zone |-> IF Falsy(az) THEN None ELSE az,
        answer |-> AnswerOf(fault)] >>

\* The inventory after the provider served the calls cs
RECURSIVE ProviderEffect(_, _)
ProviderEffect(inv, cs) ==
    IF cs = <<>> THEN inv
    ELSE ProviderEffect(
             IF Head(cs).api = "PurchaseCapacityBlock"
             THEN Append(inv, Reservation("cr-new", "payment-pending",
                                          Head(cs).instance_type, "capacity-block",
                                          AZ1, 1))
             ELSE inv,
             Tail(cs))

\* What handler returns for the action
ManagerResponse(action, instance_type, az, active_cbs) ==
    IF action \in {"check", "status"}
    THEN [statusCode |-> 200, action |-> action, instance_type |-> instance_type,
          availability_zone |-> az, active_capacity_blocks |-> active_cbs,
          has_active_cb |-> Len(active_cbs) > 0]
    ELSE IF action \in {"ensure", "purchase"}
    THEN [statusCode |-> 400, action |-> action, error |-> "DISABLED",
          message |-> "Automatic CB purchase is DISABLED. Please purchase CBs manually via AWS Console.",
          active_capacity_blocks |-> active_cbs,
          has_active_cb |-> Len(active_cbs) > 0]
    ELSE [statusCode |-> 400, error |-> <<"Unknown action: ", action>>]

\* cb-manager's handler, from invocation to return
ManagerHandler ==
    /\ fn = "manager" /\ pc = "start"
    /\ \E fault \in {NoFault} \cup QueryFaults :
         LET action == Get(event, "action", "status")
             instance_type == ResolvedInstanceType(event)
             az == Get(event, "availability_zone", None)
             active_cbs == get_active_capacity_blocks(instance_type, az, fault)
         IN  /\ calls' = ManagerCalls(action, instance_type, az, fault)
             /\ inventory' = ProviderEffect(inventory, calls')
             /\ response' = ManagerResponse(action, instance_type, az, active_cbs)
    /\ pc' = "returned"
    /\ UNCHANGED <<peer, fn, env, event, idx, job_info, cb_info, subnet_id, ret,
                   results, launched>>

----------------------------------------------------------------------------
(* Specification of one invocation of cb-manager *)

LabelPool ==
    { <<"H", "1", "0", "0">>, <<"h", "1", "0", "0">>, <<"B", "2", "0", "0">>,
      <<"S", "m", "9", "0">>, <<"g", "p", "u">> }

LabelLists ==
    UNION {[1..n -> LabelPool] : n \in 0..MaxLabels}

\* A status query with each of its four keys present or absent
ManagerEventOf(a, l, t, z) ==
    [k \in ({"action" : x \in {a} \ {NoneRec}}
            \cup {"labels" : x \in {l} \ {NoneRec}}
            \cup {"instance_type" : x \in {t} \ {NoneRec}}
            \cup {"availability_zone" : x \in {z} \ {NoneRec}}) |->
        CASE k = "action" -> a.val
          [] k = "labels" -> l.val
          [] k = "instance_type" -> t.val
          [] OTHER -> z.val]

ManagerEvents ==
    {ManagerEventOf(a, l, t, z) :
        a \in {NoneRec} \cup {Some(x) : x \in {"status", "check", "ensure",
                                                "purchase", "delete"}},
        l \in {NoneRec} \cup {Some(x) : x \in LabelLists},
        t \in {NoneRec, Some(""), Some("p5.48xlarge")},
        z \in {NoneRec, Some(AZ1)}}

\* A reservation with an end date is a Capacity Block
Dated(cr) ==
    [k \in DOMAIN cr \cup {"EndDate", "TotalInstanceCount"} |->
        IF k = "EndDate" THEN DateTime("2026-12-01T11:30:00+00:00")
        ELSE IF k = "TotalInstanceCount" THEN cr.AvailableInstanceCount
        ELSE cr[k]]

ManagerInventories ==
    { <<>>,
      <<Dated(Reservation("cr-1", "active", "p5.48xlarge", "capacity-block", AZ1, 1)),
        Reservation("cr-2", "active", "p5.48xlarge", "default", AZ2, 1)>>,
      <<Dated(Reservation("cr-1", "expired", "p6-b200.48xlarge", "capacity-block", AZ1, 0)),
        Dated(Reservation("cr-2", "pending", "p6-b200.48xlarge", "capacity-block", AZ2, 1))>> }

InitManager ==
    /\ fn = "manager"
    /\ env \in {EnvOf(NoneRec, it, NoneRec) : it \in TypeSettings}
    /\ event \in ManagerEvents
    /\ inventory \in ManagerInventories
    /\ pc = "start"
    /\ idx = 0
    /\ job_info = EmptyDict
    /\ cb_info = [id |-> None, az |-> None, available |-> 0]
    /\ subnet_id = <<>>
    /\ calls = <<>>
    /\ ret = NothingReturned
    /\ results = [successful |-> <<>>, failed |-> <<>>]
    /\ response = NoneRec
    /\ launched = 0
    /\ peer = PeerIdle

NextManager == ManagerHandler

SpecManager == InitManager /\ [][NextManager]_vars

----------------------------------------------------------------------------
(* Reading a state of the batch handlers *)

\* The record whose calls and returns the state holds
Owner == IF pc = FirstStep THEN idx - 1 ELSE idx

\* The loop body for record Owner has ended
Completed == pc \in {FirstStep, "returned"} /\ Owner >= 1

SuccessOf(k) ==
    {i \in 1..Len(results.successful) :
        results.successful[i].message_id = MessageId(event[k])}

FailedOf(k) ==
    {i \in 1..Len(results.failed) :
        results.failed[i].message_id = MessageId(event[k])}

Launched(k) == SuccessOf(k) # {}

RetryableFailed(k) == \E i \in FailedOf(k) : results.failed[i].retry

TerminalFailed(k) == \E i \in FailedOf(k) : ~results.failed[i].retry

RetryDirective ==
    {response.batchItemFailures[i].itemIdentifier :
        i \in 1..Len(response.batchItemFailures)}

LaunchCalls == {i \in 1..Len(calls) : calls[i].api = "RunInstances"}

----------------------------------------------------------------------------
(* Claims *)

\* C1: when a batch handler returns, successful and failed together hold as
\* many entries as the batch has records, and every record has exactly one.
C1_OneOutcomePerRecord ==
    pc = "returned" =>
        /\ Len(results.successful) + Len(results.failed) = Len(event)
        /\ \A k \in 1..Len(event) :
               Cardinality(SuccessOf(k)) + Cardinality(FailedOf(k)) = 1

C1_Witness ==
    /\ pc = "returned" /\ Len(event) = 2
    /\ Len(results.successful) = 1 /\ Len(results.failed) = 1

\* C2: the returned batchItemFailures name exactly the records whose outcome is
\* failed with retry, and none that succeeded or failed without retry.
C2_RetryDirectiveExact ==
    pc = "returned" =>
        /\ \A k \in 1..Len(event) :
               MessageId(event[k]) \in RetryDirective <=> RetryableFailed(k)
        /\ RetryDirective \subseteq {MessageId(event[k]) : k \in 1..Len(event)}
        /\ \A k \in 1..Len(event) :
               (Launched(k) \/ TerminalFailed(k)) =>
                   MessageId(event[k]) \notin RetryDirective

C2_Witness ==
    /\ pc = "returned"
    /\ Len(response.batchItemFailures) = 1
    /\ Len(results.successful) = 1

\* C3: a failure while processing a record never aborts the batch: the handler
\* raises only from its entry check, every record before the current one has
\* its outcome, and on return every record after a failed one has an outcome.
C3_Isolation ==
    /\ pc = "raised" => idx = 0 /\ results.failed = <<>>
    /\ pc \notin {"start", "raised", "resolve", "resolved"} =>
           \A k \in 1..(IF Completed THEN Owner ELSE Owner - 1) :
               Launched(k) \/ FailedOf(k) # {}
    /\ pc = "returned" =>
           /\ response.statusCode = 200
           /\ \A i \in 1..Len(event) : \A j \in (i + 1)..Len(event) :
                  FailedOf(i) # {} => (Launched(j) \/ FailedOf(j) # {})

C3_Witness ==
    /\ pc = "returned" /\ Len(event) = 2
    /\ TerminalFailed(1) /\ Launched(2)

\* C4: in p4d-scale-up, a spot launch rejected with a SPOT_FAILOVER_ERRORS code
\* is followed by an on-demand launch for the same record and subnet, and when
\* that launch succeeds the record is recorded successful with market type
\* "on-demand".
C4_FailoverMarketType ==
    (fn = "p4d" /\ Owner >= 1 /\ calls # <<>>
        /\ calls[1].market = "spot" /\ calls[1].answer \in SPOT_FAILOVER_ERRORS) =>
        \/ pc = "ondemand" /\ Len(calls) = 1
        \/ /\ Completed /\ Len(calls) = 2
           /\ calls[2].api = "RunInstances" /\ calls[2].market = "on-demand"
           /\ calls[2].subnet = calls[1].subnet
           /\ calls[2].answer = "ok" =>
                  \E i \in SuccessOf(Owner) :
                      results.successful[i].market_type = "on-demand"

C4_Witness ==
    /\ fn = "p4d" /\ pc = "returned" /\ Len(calls) = 2
    /\ calls[1].answer = "SpotMaxPriceTooLow" /\ calls[2].answer = "ok"
    /\ \E i \in SuccessOf(Owner) : results.successful[i].market_type = "on-demand"

\* C5: in p4d-scale-up, a RETRY_ERRORS code on the spot or the on-demand launch
\* ends the record as failed with retry, and its id is in batchItemFailures.
C5_ThrottlingRetryable ==
    \A c \in 1..Len(calls) :
        (fn = "p4d" /\ calls[c].api = "RunInstances"
            /\ calls[c].answer \in RETRY_ERRORS) =>
            /\ c = Len(calls) /\ Completed
            /\ RetryableFailed(Owner) /\ ~TerminalFailed(Owner)
            /\ pc = "returned" => MessageId(event[Owner]) \in RetryDirective

C5_Witness ==
    /\ fn = "p4d" /\ pc = "returned" /\ Len(calls) = 2
    /\ calls[2].market = "on-demand" /\ calls[2].answer = "ServiceUnavailable"

\* C6: in cb-scale-up, a launch rejected with InsufficientInstanceCapacity,
\* RequestLimitExceeded or ServiceUnavailable ends the record as failed with
\* retry, and the records of cb-scale-up never see a launch on another market:
\* at most one launch call each, on the capacity-block market.
C6_ReservationNoFallback ==
    fn = "cb" =>
        /\ Cardinality(LaunchCalls) <= 1
        /\ \A c \in LaunchCalls : calls[c].market = "capacity-block"
        /\ \A c \in LaunchCalls :
               calls[c].answer \in CB_RETRY_ERRORS =>
                   /\ Completed /\ c = Len(calls)
                   /\ RetryableFailed(Owner) /\ ~TerminalFailed(Owner)
                   /\ pc = "returned" => MessageId(event[Owner]) \in RetryDirective

C6_Witness ==
    /\ fn = "cb" /\ pc = "returned" /\ Len(calls) = 3
    /\ calls[3].answer = "InsufficientInstanceCapacity"
    /\ RetryableFailed(Owner)

\* C7: the reservation find_active_capacity_block returns is listed with an
\* AvailableInstanceCount above zero; one listed with a count of zero is never
\* returned, and when no listed reservation has a count above zero it returns
\* None.
C7_SelectedHasCapacity ==
    (pc = "resolved" /\ ret.block.ok) =>
        LET crs == DescribeCapacityReservations({"active"}, CB_INSTANCE_TYPE)
            sel == ret.block.val
        IN  /\ ~sel.isNone =>
                /\ sel.val.available > 0
                /\ \E i \in 1..Len(crs) :
                       /\ crs[i].CapacityReservationId = sel.val.id
                       /\ "AvailableInstanceCount" \in DOMAIN crs[i]
                       /\ crs[i].AvailableInstanceCount > 0
            /\ (\A i \in 1..Len(crs) :
                    Get(crs[i], "AvailableInstanceCount", 0) = 0) => sel.isNone

C7_Witness ==
    /\ pc = "resolved" /\ ret.block.ok /\ ~ret.block.val.isNone
    /\ Len(inventory) = 2
    /\ inventory[1].State = "active" /\ inventory[1].InstanceType = "p5.48xlarge"
    /\ inventory[1].ReservationType = "capacity-block"
    /\ Get(inventory[1], "AvailableInstanceCount", 0) = 0
    /\ ret.block.val.val.id = "cr-2"

\* C8: in cb-scale-up, when find_active_capacity_block or find_subnet_in_az
\* returned None for a record, the record ends as failed with retry and no
\* launch call was issued for it.
C8_NothingFoundNoLaunch ==
    (fn = "cb" /\ pc \notin {"resolve", "resolved"}
        /\ \/ ret.block = Ok(NoneRec)
           \/ ret.subnet = Ok(NoneRec)) =>
        /\ Completed
        /\ LaunchCalls = {}
        /\ RetryableFailed(Owner) /\ ~TerminalFailed(Owner) /\ ~Launched(Owner)
        /\ pc = "returned" => MessageId(event[Owner]) \in RetryDirective

C8_WitnessNoBlock ==
    /\ fn = "cb" /\ pc = "returned" /\ ret.block = Ok(NoneRec)
    /\ RetryableFailed(Owner)

C8_Witness ==
    /\ fn = "cb" /\ pc = "returned" /\ ret.subnet = Ok(NoneRec)
    /\ ret.block.ok /\ ~ret.block.val.isNone
    /\ RetryableFailed(Owner)

\* C9: a record whose body is not valid JSON ends as failed without retry, no
\* launch call is issued for it, and its id is absent from batchItemFailures.
C9_MalformedIsParseFailure ==
    (Completed /\ "body" \in DOMAIN event[Owner]
        /\ event[Owner].body.kind = "invalid") =>
        /\ TerminalFailed(Owner) /\ ~Launched(Owner)
        /\ LaunchCalls = {}
        /\ pc = "returned" => MessageId(event[Owner]) \notin RetryDirective

\* C10: in cb-scale-up, when the reservation inventory query raises a provider
\* error the record ends as failed with retry and its id is in
\* batchItemFailures.
C10_QueryFailureRetryable ==
    (fn = "cb" /\ Completed /\ calls # <<>>
        /\ calls[1].api = "DescribeCapacityReservations"
        /\ calls[1].answer # "ok") =>
        /\ RetryableFailed(Owner)
        /\ pc = "returned" => MessageId(event[Owner]) \in RetryDirective

\* The configured subnet pool names no subnet: SUBNET_IDS unset, '' or made
\* of commas only
BlankSubnetPool(subnet_ids) ==
    \A i \in 1..Len(subnet_ids) : subnet_ids[i] = <<>>

\* C11: in p4d-scale-up, with an empty or all-blank subnet pool no subnet is
\* picked, no launch call is issued and no record is failed with retry.
C11_BlankPoolNotRetryable ==
    (fn = "p4d" /\ BlankSubnetPool(P4D_SUBNET_IDS)) =>
        /\ subnet_id = <<>>
        /\ calls = <<>>
        /\ \A k \in 1..Len(event) : ~RetryableFailed(k)
        /\ pc = "returned" => RetryDirective = {}

\* C12: when the launch template, the instance type or a subnet pool naming
\* at least one subnet is missing, the handler raises from its entry check:
\* no remote call, no outcome, no response.
C12_MissingConfigFailsInvocation ==
    (\/ fn = "cb" /\ \/ Falsy(CB_LAUNCH_TEMPLATE_NAME)
                     \/ Falsy(CB_INSTANCE_TYPE)
                     \/ BlankSubnetPool(CB_SUBNET_IDS)
     \/ fn = "p4d" /\ \/ Falsy(P4D_LAUNCH_TEMPLATE_NAME)
                      \/ Falsy(P4D_INSTANCE_TYPE)
                      \/ BlankSubnetPool(P4D_SUBNET_IDS)) =>
        /\ pc \in {"start", "raised"}
        /\ calls = <<>>
        /\ results = [successful |-> <<>>, failed |-> <<>>]
        /\ response = NoneRec

\* C13: every launch call asks for one instance, at most one launch call of a
\* record succeeds, a record that failed has no successful launch call, and
\* the instances created are as many as the records recorded successful.
C13_AtMostOneInstance ==
    pc \notin {"resolve", "resolved"} =>
        /\ \A c \in LaunchCalls : calls[c].count = 1
        /\ Cardinality({c \in LaunchCalls : calls[c].answer = "ok"}) <= 1
        /\ Completed =>
               /\ FailedOf(Owner) # {} =>
                      \A c \in LaunchCalls : calls[c].answer # "ok"
               /\ Launched(Owner) <=>
                      \E c \in LaunchCalls : calls[c].answer = "ok"
        /\ launched = Len(results.successful)
        /\ launched <= Len(event)

C13_Witness ==
    /\ fn = "p4d" /\ pc = "returned" /\ Len(event) = 2
    /\ Len(calls) = 2 /\ calls[2].answer = "ok"
    /\ launched = 1 /\ Len(results.failed) = 1

\* C19: in p4d-scale-up, the on-demand launch is issued only as the second
\* launch call of a record whose spot launch was rejected with a
\* SPOT_FAILOVER_ERRORS code; a record sees at most two launch calls.
C19_OnDemandOnlyAfterCapacityRejection ==
    fn = "p4d" =>
        /\ Len(calls) <= 2
        /\ \A c \in 1..Len(calls) :
               /\ calls[c].api = "RunInstances"
               /\ calls[c].market = (IF c = 1 THEN "spot" ELSE "on-demand")
        /\ Len(calls) = 2 =>
               /\ calls[1].answer \in SPOT_FAILOVER_ERRORS
               /\ Completed
        /\ pc = "ondemand" =>
               /\ Len(calls) = 1
               /\ calls[1].answer \in SPOT_FAILOVER_ERRORS
        /\ (calls # <<>> /\ calls[1].answer \notin SPOT_FAILOVER_ERRORS) =>
               Len(calls) = 1 /\ Completed

C19_Witness ==
    /\ fn = "p4d" /\ pc = "returned" /\ Len(calls) = 2
    /\ calls[1].answer = "MaxSpotInstanceCountExceeded"
    /\ calls[2].market = "on-demand"

C19_WitnessThrottled ==
    /\ fn = "p4d" /\ pc = "returned" /\ Len(calls) = 1
    /\ calls[1].answer = "RequestLimitExceeded"

\* The launch call that ended record Owner raised something its handler does
\* not classify as retryable
UnclassifiedLaunchError ==
    /\ Completed /\ calls # <<>>
    /\ LET last == calls[Len(calls)]
       IN  /\ last.api = "RunInstances"
           /\ last.answer # "ok"
           /\ \/ last.market = "spot"
                 /\ last.answer \notin SPOT_FAILOVER_ERRORS \cup RETRY_ERRORS
              \/ last.market = "on-demand" /\ last.answer \notin RETRY_ERRORS
              \/ last.market = "capacity-block"
                 /\ last.answer \notin CB_RETRY_ERRORS

\* C20: a launch error outside the classes named for its state (spot: neither
\* failover nor throttling; on-demand: not throttling; reservation: neither
\* InsufficientInstanceCapacity nor throttling) ends the record as failed
\* without retry, and its id is not in batchItemFailures.
C20_OtherErrorsTerminal ==
    UnclassifiedLaunchError =>
        /\ TerminalFailed(Owner) /\ ~RetryableFailed(Owner) /\ ~Launched(Owner)
        /\ pc = "returned" => MessageId(event[Owner]) \notin RetryDirective

C20_Witness ==
    /\ UnclassifiedLaunchError /\ pc = "returned"
    /\ calls[Len(calls)].market = "on-demand"
    /\ calls[Len(calls)].answer = "InsufficientInstanceCapacity"

\* Every failure recorded so far is one the handler raised itself on an
\* answered query: no provider call raised
NoProviderError ==
    \A i \in 1..Len(results.failed) :
        results.failed[i].error[1] \in {"No active Capacity Block for", "No subnet in"}

\* C17 as stated: with no reservation for the configured type and no provider
\* error, the "h100" message launches via the p5.48xlarge reservation and the
\* unlabelled message alone is failed for retry and named in batchItemFailures.
C17_PerRequestType ==
    (/\ CB_INSTANCE_TYPE = "p6-b200.48xlarge"
     /\ pc = "returned" /\ NoProviderError) =>
        /\ Launched(1)
        /\ RetryableFailed(2)
        /\ RetryDirective = {MsgIds[2]}

\* C17: both messages are resolved against the configured INSTANCE_TYPE and
\* labels are not read. Configured for the type without a reservation, nothing
\* is launched and, provider errors apart, both messages are failed for retry
\* with the no-Capacity-Block error and both ids are in batchItemFailures;
\* configured for p5.48xlarge, no message is failed for want of a Capacity
\* Block and, provider errors apart, both launch into the reservation.
C17_ResolvedAgainstConfiguredType ==
    /\ CB_INSTANCE_TYPE = "p6-b200.48xlarge" =>
           /\ results.successful = <<>> /\ launched = 0
           /\ inventory = HopperInventory
           /\ (pc = "returned" /\ NoProviderError) =>
                  /\ \A k \in 1..2 :
                         /\ RetryableFailed(k) /\ ~TerminalFailed(k)
                         /\ \A i \in FailedOf(k) :
                                results.failed[i].error
                                    = StrOf(NoCapacityBlock("p6-b200.48xlarge"))
                  /\ RetryDirective = {MsgIds[1], MsgIds[2]}
    /\ CB_INSTANCE_TYPE = "p5.48xlarge" =>
           /\ \A i \in 1..Len(results.failed) :
                  results.failed[i].error[1] # "No active Capacity Block for"
           /\ (pc = "returned" /\ NoProviderError) =>
                  /\ Launched(1) /\ Launched(2)
                  /\ \A i \in 1..2 : results.successful[i].capacity_block_id = "cr-1"
                  /\ inventory[1].AvailableInstanceCount = 1
                  /\ RetryDirective = {}

C17_Witness ==
    /\ CB_INSTANCE_TYPE = "p6-b200.48xlarge"
    /\ event = ScenarioEvent /\ pc = "returned" /\ NoProviderError
    /\ RetryableFailed(1) /\ RetryableFailed(2)
    /\ RetryDirective = {MsgIds[1], MsgIds[2]}

\* This invocation's launch call for record Owner was rejected for capacity
RejectedForCapacity ==
    /\ Completed /\ calls # <<>>
    /\ calls[Len(calls)].api = "RunInstances"
    /\ calls[Len(calls)].answer = "InsufficientInstanceCapacity"

PeerRejectedForCapacity ==
    peer.pc = "returned" /\ peer.answer = "InsufficientInstanceCapacity"

\* Entries of both invocations' successful lists naming reservation id
LaunchedInto(id) ==
    Cardinality({i \in 1..Len(results.successful) :
                    results.successful[i].capacity_block_id = id})
    + Cardinality({i \in 1..Len(peer.results.successful) :
                      peer.results.successful[i].capacity_block_id = id})

\* C14: of two concurrent invocations launching into the same reservation,
\* the one whose launch is rejected with InsufficientInstanceCapacity records
\* the request as failed with retry and names it in its batchItemFailures,
\* never as failed without retry; no reservation's available count goes below
\* zero, and every change of the inventory is one instance placed into a
\* reservation that had capacity left, matched by one more successful entry.
C14_RejectedLaunchRetryable ==
    /\ [](/\ \A i \in 1..Len(inventory) :
                Get(inventory[i], "AvailableInstanceCount", 0) >= 0
          /\ RejectedForCapacity =>
                /\ RetryableFailed(Owner) /\ ~TerminalFailed(Owner)
                /\ ~Launched(Owner)
                /\ pc = "returned" => MessageId(event[Owner]) \in RetryDirective
          /\ PeerRejectedForCapacity =>
                /\ peer.results.successful = <<>>
                /\ Len(peer.results.failed) = 1
                /\ peer.results.failed[1].retry
                /\ peer.results.failed[1].message_id = PeerMessageId
                /\ peer.response.val.batchItemFailures
                       = <<[itemIdentifier |-> PeerMessageId]>>)
    /\ [][inventory' # inventory =>
            \E i \in 1..Len(inventory) :
                /\ inventory[i].AvailableInstanceCount > 0
                /\ inventory' = Consume(inventory[i].CapacityReservationId)
                /\ LaunchedInto(inventory[i].CapacityReservationId)' =
                       LaunchedInto(inventory[i].CapacityReservationId) + 1]_vars

\* Both invocations saw one instance available in the same reservation; the
\* peer's launch took it and this invocation's launch was rejected
C14_Witness ==
    /\ pc = "returned" /\ Len(event) = 1 /\ RejectedForCapacity
    /\ peer.pc = "returned" /\ peer.answer = "ok"
    /\ cb_info.id = peer.cb_info.id
    /\ cb_info.available = 1 /\ peer.cb_info.available = 1
    /\ inventory[1].AvailableInstanceCount = 0
    /\ RetryDirective = {MessageId(event[1])}

C14_WitnessPeerRejected ==
    /\ pc = "returned" /\ Len(event) = 1 /\ Launched(1)
    /\ PeerRejectedForCapacity
    /\ cb_info.id = peer.cb_info.id
    /\ cb_info.available = 1 /\ peer.cb_info.available = 1

\* C15: an invocation of cb-manager leaves the reservation inventory and the
\* instance count as they were, whatever the action; its only remote call is
\* DescribeCapacityReservations; for 'ensure' and 'purchase' it returns status
\* 400 with error 'DISABLED' and the message asking for a manual purchase.
C15_StatusQueryReadOnly ==
    /\ [](/\ launched = 0
          /\ pc = "returned" =>
                /\ \A c \in 1..Len(calls) : calls[c].api = "DescribeCapacityReservations"
                /\ Get(event, "action", "status") \in {"ensure", "purchase"} =>
                       /\ response.statusCode = 400
                       /\ response.error = "DISABLED"
                       /\ response.message =
                              "Automatic CB purchase is DISABLED. Please purchase CBs manually via AWS Console.")
    /\ [][inventory' = inventory /\ launched' = launched]_vars

C15_Witness ==
    /\ fn = "manager" /\ pc = "returned"
    /\ Get(event, "action", "status") = "purchase"
    /\ response.error = "DISABLED"
    /\ inventory # <<>>

\* Two labels equal up to the case of their letters
SameIgnoringCase(a, b) ==
    /\ Len(a) = Len(b)
    /\ \A i \in 1..Len(a) :
           \/ a[i] = b[i]
           \/ \E j \in 1..Len(UpperCase) : {a[i], b[i]} = {UpperCase[j], LowerCase[j]}

MatchingKeys(label) ==
    {k \in DOMAIN LABEL_TO_INSTANCE_TYPE : SameIgnoringCase(label, k)}

\* The type C16 names for a query: the explicit type, else the type of the
\* first label that is a key of the table, else the default
ExpectedInstanceType(ev) ==
    LET given == Get(ev, "instance_type", None)
        labels == Get(ev, "labels", <<>>)
        hits == {i \in 1..Len(labels) : MatchingKeys(labels[i]) # {}}
    IN  IF given \notin {None, ""} THEN given
        ELSE IF hits # {}
        THEN LET first == CHOOSE i \in hits : \A j \in hits : i <= j
             IN  LABEL_TO_INSTANCE_TYPE[CHOOSE k \in MatchingKeys(labels[first]) : TRUE]
        ELSE DEFAULT_INSTANCE_TYPE

\* C16: the instance type a status query filters on (and reports) is the
\* explicit type when one is given; otherwise the type the table gives for the
\* first label, in input order and ignoring case, that is one of its keys;
\* otherwise the configured default.
C16_InstanceTypeResolution ==
    (fn = "manager" /\ pc = "returned") =>
        /\ calls[1].instance_type = ExpectedInstanceType(event)
        /\ response.statusCode = 200 =>
               response.instance_type = ExpectedInstanceType(event)

\* Two labels matching different types: the first one decides
C16_Witness ==
    /\ fn = "manager" /\ pc = "returned"
    /\ "instance_type" \notin DOMAIN event
    /\ Get(event, "labels", <<>>) = << <<"H", "1", "0", "0">>, <<"B", "2", "0", "0">> >>
    /\ calls[1].instance_type = "p5.48xlarge"
    /\ DEFAULT_INSTANCE_TYPE = "p6-b200.48xlarge"

C16_WitnessDefault ==
    /\ fn = "manager" /\ pc = "returned"
    /\ Get(event, "instance_type", None) = ""
    /\ Get(event, "labels", <<>>) = << <<"g", "p", "u">> >>
    /\ calls[1].instance_type = "p5.48xlarge"
    /\ DEFAULT_INSTANCE_TYPE = "p5.48xlarge"

\* C18 as stated: when DescribeCapacityReservations raises, what a status
\* query returns is not a status-200 result with an empty reservation list and
\* has_active_cb false.
C18_QueryFailureSurfaced ==
    (fn = "manager" /\ pc = "returned" /\ calls[1].answer # "ok") =>
        ~(/\ response.statusCode = 200
          /\ response.active_capacity_blocks = <<>>
          /\ response.has_active_cb = FALSE)

\* C21: every run_instances call of cb-scale-up targets the reservation that
\* find_active_capacity_block returned for the same record, in a subnet of
\* SUBNET_IDS whose zone is that reservation's zone; a successful entry
\* carries that reservation's id as capacity_block_id.
C21_LaunchBoundToSelectedReservation ==
    (fn = "cb" /\ pc \notin {"resolve", "resolved"}) =>
        /\ \A c \in LaunchCalls :
               /\ ret.block # NotCalled /\ ret.block.ok /\ ~ret.block.val.isNone
               /\ calls[c].market = "capacity-block"
               /\ calls[c].reservation = ret.block.val.val.id
               /\ \E i \in 1..Len(CB_SUBNET_IDS) : CB_SUBNET_IDS[i] = calls[c].subnet
               /\ SubnetAZ(calls[c].subnet) = ret.block.val.val.az
               /\ \E i \in 1..Len(inventory) :
                      /\ inventory[i].CapacityReservationId = calls[c].reservation
                      /\ inventory[i].AvailabilityZone = SubnetAZ(calls[c].subnet)
        /\ (Completed /\ Launched(Owner)) =>
               /\ LaunchCalls # {}
               /\ \A i \in SuccessOf(Owner) :
                      results.successful[i].capacity_block_id = ret.block.val.val.id

\* The second listed reservation was selected, in the second zone, and the
\* launch went into it from the pool's subnet of that zone
C21_Witness ==
    /\ fn = "cb" /\ pc = "returned" /\ Launched(Owner)
    /\ CB_SUBNET_IDS = << <<"a">>, <<"b">> >>
    /\ calls[Len(calls)].api = "RunInstances"
    /\ calls[Len(calls)].subnet = <<"b">>
    /\ calls[Len(calls)].reservation = "cr-1"
    /\ ret.block.val.val.az = AZ2

C21_WitnessSecondListed ==
    /\ fn = "cb" /\ pc = "returned" /\ Launched(Owner)
    /\ Len(inventory) = 2
    /\ calls[Len(calls)].api = "RunInstances"
    /\ calls[Len(calls)].reservation = "cr-2"

\* The batch ran against a single active Capacity Block of the configured
\* type and every failure recorded is the handler's own no-Capacity-Block error
SingleBlockNoOtherError ==
    /\ fn = "cb" /\ pc = "returned"
    /\ Len(inventory) = 1
    /\ inventory[1].State = "active"
    /\ inventory[1].ReservationType = "capacity-block"
    /\ inventory[1].InstanceType = CB_INSTANCE_TYPE
    /\ \A i \in 1..Len(results.failed) :
           results.failed[i].error = StrOf(NoCapacityBlock(CB_INSTANCE_TYPE))

Min(a, b) == IF a <= b THEN a ELSE b

\* C22: cb-scale-up queries the inventory anew for every record: the block a
\* record is about to launch into has the available count the inventory holds
\* at that moment. Against a single active Capacity Block that had k instances
\* available, a batch of n records with no other error ends with the first
\* min(n, k) records launched, in order, and the others failed for retry, in
\* order; a record failed for want of a block saw no launch call.
C22_FreshQueryPerRecord ==
    /\ (fn = "cb" /\ pc \in {"find_subnet", "launch_cb"}) =>
           /\ cb_info.available > 0
           /\ \E i \in 1..Len(inventory) :
                  /\ inventory[i].CapacityReservationId = cb_info.id
                  /\ inventory[i].AvailableInstanceCount = cb_info.available
    /\ (fn = "cb" /\ Completed
        /\ \E i \in FailedOf(Owner) :
               results.failed[i].error[1] = "No active Capacity Block for") =>
           /\ LaunchCalls = {}
           /\ RetryableFailed(Owner) /\ ~TerminalFailed(Owner)
    /\ SingleBlockNoOtherError =>
           LET n == Len(event)
               k == inventory[1].AvailableInstanceCount + launched
               m == Min(n, k)
           IN  /\ launched = m
               /\ Len(results.successful) = m
               /\ Len(results.failed) = n - m
               /\ \A i \in 1..m :
                      /\ results.successful[i].message_id = MessageId(event[i])
                      /\ results.successful[i].capacity_block_id
                             = inventory[1].CapacityReservationId
               /\ \A j \in 1..(n - m) :
                      /\ results.failed[j].message_id = MessageId(event[m + j])
                      /\ results.failed[j].retry
               /\ RetryDirective = {MessageId(event[i]) : i \in (m + 1)..n}

\* Two records against one available instance: the first launched, the second
\* found no block on its own query and is to be retried
C22_Witness ==
    /\ SingleBlockNoOtherError
    /\ Len(event) = 2
    /\ inventory[1].AvailableInstanceCount = 0 /\ launched = 1
    /\ Launched(1) /\ RetryableFailed(2)
    /\ LaunchCalls = {}

C22_WitnessEnoughCapacity ==
    /\ SingleBlockNoOtherError
    /\ Len(event) = 2
    /\ inventory[1].AvailableInstanceCount = 0 /\ launched = 2

====
